---- MODULE Spec2Model ----
(***************************************************************************)
(* Model of src/1a_concave_hull.cpp: main() reads a feature collection,    *)
(* replaces every MultiPolygon geometry by a concave hull found with an    *)
(* escalating length threshold, prunes tiny fragments of two-part results, *)
(* writes one file per unresolved feature and the two output collections.  *)
(*                                                                         *)
(* Abstractions.  A geometry is its type and the sequence of the areas of  *)
(* its polygonal parts (square metres).  Thresholds are kept in metres:    *)
(* the source divides by METERS_PER_DEGREE and adds in float, the model    *)
(* adds the metre values as integers.  The concave hull kernel, the file   *)
(* system and the contents of the input file are the environment: their    *)
(* outcomes are drawn from small sets.                                     *)
(***************************************************************************)
EXTENDS Integers, Sequences, FiniteSets, TLC

\* ---------------------------------------------------------------- bounds
\* Largest number of features in the input collection.
MaxFeatures == 2

\* const int MAX_ATTEMPTS = 100; scaled down so that exhaustion is reached.
MAX_ATTEMPTS == 3

\* ------------------------------------------------------------- constants
CONCAVE_HULL_LENGTH_THRESHOLD_METERS == 50
CONCAVE_HULL_LENGTH_INCREMENT_METERS == 20
TINY_POLYGON_AREA_THRESHOLD_SQ_METERS == 500

\* --------------------------------------------------------------- geometry
Polygon(a) == [type |-> "Polygon", parts |-> <<a>>]
MultiPolygon(ps) == [type |-> "MultiPolygon", parts |-> ps]
OtherGeometry == [type |-> "GeometryCollection", parts |-> <<>>]

\* unique_ptr<Geometry> hull before the first successful kernel call
NullGeometry == [type |-> "null", parts |-> <<>>]

getNumGeometries(g) == Len(g.parts)
getGeometryN(g, n) == Polygon(g.parts[n + 1])
getArea(g) == g.parts[1]

\* GeoJSONWriter::write(const Geometry*): the geometry as a GeoJSON string
GeoJSONWrite(g) == <<"geojson", g.type, g.parts>>

\* ------------------------------------------------------------ input sets
StringValue(s) == [kind |-> "string", val |-> s]
MissingValue == [kind |-> "missing", val |-> ""]
NumberValue == [kind |-> "number", val |-> ""]

Whitelists == {{}, {"Prospect Park"}}

\* The kinds of feature an input file holds: identifying property and geometry
InputFeatures ==
  { [eapply |-> StringValue("Prospect Park"), geom |-> MultiPolygon(<<10, 2000>>)],
    [eapply |-> StringValue("Prospect Park"), geom |-> Polygon(2000)],
    [eapply |-> StringValue("Other Park"), geom |-> MultiPolygon(<<10, 2000>>)],
    [eapply |-> MissingValue, geom |-> MultiPolygon(<<2000, 2000, 10>>)],
    [eapply |-> NumberValue, geom |-> MultiPolygon(<<400, 10>>)] }

\* Results the kernel may return for a MultiPolygon
KernelResults ==
  { Polygon(2000),
    MultiPolygon(<<2000>>),
    MultiPolygon(<<2000, 10>>),
    MultiPolygon(<<500, 2000>>),
    MultiPolygon(<<10, 2000, 2000>>),
    MultiPolygon(<<>>),
    OtherGeometry }

KernelFailure == [type |-> "exception", parts |-> <<>>]

\* What a null dereference may leave behind when the process survives it
GarbageGeometries == {MultiPolygon(<<10, 2000, 2000>>)}

Feature(id, eapply, geom) == [id |-> id, eapply |-> eapply, geom |-> geom]

FeaturesOfLength(n) ==
  [1..n -> InputFeatures]

RECURSIVE MakeFeatures(_, _)
MakeFeatures(f, n) ==
  IF n = 0 THEN <<>>
  ELSE Append(MakeFeatures(f, n - 1), Feature(n, f[n].eapply, f[n].geom))

InputCollections ==
  UNION { { MakeFeatures(f, n) : f \in FeaturesOfLength(n) } : n \in 0..MaxFeatures }

\* ------------------------------------------------------------------ state
VARIABLES
  EAPPLY_WHITELIST,            \* the whitelist this build was compiled with
  features,                    \* the features of the input file
  pc,                          \* position in main()
  idx,                         \* first pass: index of the feature in hand
  output_features,
  output_features_with_hulls,
  processed,
  skipped,
  hull,                        \* search: last value assigned to hull
  current_threshold,           \* search: in metres
  attempts,                    \* search: loop counter
  calls,                       \* kernel invocations made for the feature in hand
  last_call,                   \* arguments of the last invocation, and whether it threw
  last_returned,               \* threshold and result of the last invocation that returned
  loop_exit,                   \* how the search loop was left: break or exhausted
  outcome,                     \* branch each dispatched feature took
  kernel_features,             \* indexes of the features handed to the kernel
  i2,                          \* second pass: index into output_features
  multi_polygon_names,
  multi_polygon_features,
  tiny_polygons_removed,
  pruned,                      \* indexes replaced by the second pass
  issue_i,                     \* issue loop: index into multi_polygon_features
  issue_dir,                   \* what createDirectoryIfNotExists returned, if called
  written,                     \* files written so far, in order
  exit_status,                 \* -1 while running, else main's return value
  failed_at                    \* the call whose exception reached main's catch

vars ==
  << EAPPLY_WHITELIST, features, pc, idx, output_features,
     output_features_with_hulls, processed, skipped, hull, current_threshold,
     attempts, calls, last_call, last_returned, loop_exit, outcome,
     kernel_features, i2,
     multi_polygon_names, multi_polygon_features, tiny_polygons_removed,
     pruned, issue_i, issue_dir, written, exit_status, failed_at >>

firstPassVars ==
  << idx, output_features, output_features_with_hulls, processed, skipped,
     outcome >>
searchVars ==
  << hull, current_threshold, attempts, calls, last_call, last_returned, loop_exit,
     kernel_features >>
secondPassVars ==
  << i2, multi_polygon_names, multi_polygon_features, tiny_polygons_removed, pruned >>
outputVars == << issue_i, issue_dir, written >>
configVars == << EAPPLY_WHITELIST, features >>
runVars == << exit_status, failed_at >>

NoCall == [threshold |-> 0, tight |-> FALSE, holes |-> FALSE, failed |-> FALSE]
NoResult == [threshold |-> 0, result |-> NullGeometry]

Init ==
  /\ EAPPLY_WHITELIST \in Whitelists
  /\ features \in InputCollections
  /\ pc = "read"
  /\ idx = 1
  /\ output_features = <<>>
  /\ output_features_with_hulls = <<>>
  /\ processed = 0
  /\ skipped = 0
  /\ hull = NullGeometry
  /\ current_threshold = 0
  /\ attempts = 0
  /\ calls = 0
  /\ last_call = NoCall
  /\ last_returned = NoResult
  /\ loop_exit = "none"
  /\ outcome = <<>>
  /\ kernel_features = {}
  /\ i2 = 1
  /\ multi_polygon_names = <<>>
  /\ multi_polygon_features = <<>>
  /\ tiny_polygons_removed = 0
  /\ pruned = {}
  /\ issue_i = 1
  /\ issue_dir = "not called"
  /\ written = <<>>
  /\ exit_status = -1
  /\ failed_at = "none"

\* catch (const std::exception &e) of main: return 1
Abort(call) ==
  /\ pc' = "aborted"
  /\ exit_status' = 1
  /\ failed_at' = call

\* the process dies on a signal: no handler runs, nothing more is written
Crash ==
  /\ pc' = "crashed"
  /\ exit_status' = 139
  /\ UNCHANGED failed_at

\* readFile(SOURCE_DATA_FILE) and reader.readFeatures
ReadInput ==
  /\ pc = "read"
  /\ \E readable \in BOOLEAN :
       IF readable
       THEN pc' = "first_pass" /\ UNCHANGED runVars
       ELSE Abort("readFile")
  /\ UNCHANGED << configVars, firstPassVars, searchVars, secondPassVars, outputVars >>

\* ------------------------------------------------------------- first pass
\* should_process with a feature without a string eapply let through
should_process_NonStringPasses(feature) ==
  IF EAPPLY_WHITELIST = {}
  THEN TRUE
  ELSE IF feature.eapply.kind = "string"
       THEN feature.eapply.val \in EAPPLY_WHITELIST
       ELSE TRUE

\* lines 145-156
should_process(feature) ==
  IF EAPPLY_WHITELIST = {}
  THEN TRUE
  ELSE IF feature.eapply.kind = "string"
       THEN feature.eapply.val \in EAPPLY_WHITELIST
       ELSE FALSE

\* a feature of the hull-only collection, or a pass-through feature
PlainFeature(feature, geom) ==
  [id |-> feature.id, eapply |-> feature.eapply, geom |-> geom,
   concave_hull_polygon |-> <<>>]

\* a feature of the annotated collection
FeatureWithHull(feature, hull_copy) ==
  [id |-> feature.id, eapply |-> feature.eapply, geom |-> feature.geom,
   concave_hull_polygon |-> GeoJSONWrite(hull_copy)]

\* lines 158-171
SkipFeature ==
  /\ pc = "first_pass"
  /\ idx <= Len(features)
  /\ ~should_process(features[idx])
  /\ output_features' = Append(output_features, PlainFeature(features[idx], features[idx].geom))
  /\ output_features_with_hulls' =
       Append(output_features_with_hulls, PlainFeature(features[idx], features[idx].geom))
  /\ skipped' = skipped + 1
  /\ outcome' = Append(outcome, "Skipped")
  /\ idx' = idx + 1
  /\ UNCHANGED << configVars, pc, processed, searchVars, secondPassVars, outputVars, runVars >>

\* lines 266-280
PassNonMultiPolygon ==
  /\ pc = "first_pass"
  /\ idx <= Len(features)
  /\ should_process(features[idx])
  /\ features[idx].geom.type # "MultiPolygon"
  /\ output_features' = Append(output_features, PlainFeature(features[idx], features[idx].geom))
  /\ output_features_with_hulls' =
       Append(output_features_with_hulls, PlainFeature(features[idx], features[idx].geom))
  /\ processed' = processed + 1
  /\ outcome' = Append(outcome, "NonMultiPolygon")
  /\ idx' = idx + 1
  /\ UNCHANGED << configVars, pc, skipped, searchVars, secondPassVars, outputVars, runVars >>

\* StartSearch with hull, current_threshold and attempts left as they were
StartSearch_KeepsSearchState ==
  /\ pc = "first_pass"
  /\ idx <= Len(features)
  /\ should_process(features[idx])
  /\ features[idx].geom.type = "MultiPolygon"
  /\ UNCHANGED << hull, current_threshold, attempts >>
  /\ calls' = 0
  /\ last_call' = NoCall
  /\ last_returned' = NoResult
  /\ loop_exit' = "none"
  /\ \E name311 \in {"string", "number", "missing"}, survives \in BOOLEAN :
       IF name311 = "missing" /\ ~survives
       THEN Crash
       ELSE pc' = "loop" /\ UNCHANGED runVars
  /\ UNCHANGED << configVars, firstPassVars, kernel_features, secondPassVars, outputVars >>

\* lines 173-187: the search state is declared, the name311 property is
\* printed.  properties.find("name311")->second dereferences end() when the
\* property is missing: the process crashes or goes on.
StartSearch ==
  /\ pc = "first_pass"
  /\ idx <= Len(features)
  /\ should_process(features[idx])
  /\ features[idx].geom.type = "MultiPolygon"
  /\ hull' = NullGeometry
  /\ current_threshold' = CONCAVE_HULL_LENGTH_THRESHOLD_METERS
  /\ attempts' = 0
  /\ calls' = 0
  /\ last_call' = NoCall
  /\ last_returned' = NoResult
  /\ loop_exit' = "none"
  /\ \E name311 \in {"string", "number", "missing"}, survives \in BOOLEAN :
       IF name311 = "missing" /\ ~survives
       THEN Crash
       ELSE pc' = "loop" /\ UNCHANGED runVars
  /\ UNCHANGED << configVars, firstPassVars, kernel_features, secondPassVars, outputVars >>

\* ------------------------------------------------------- threshold search
\* the acceptance test without the part count of a MultiPolygon
IsSinglePolygon_AnyMultiPolygon(g) == g.type \in {"MultiPolygon", "Polygon"}

\* the acceptance test without the MultiPolygon branch
IsSinglePolygon_PolygonOnly(g) == g.type = "Polygon"

\* lines 207-221: the test that leaves the loop by break
IsSinglePolygon(g) ==
  IF g.type = "MultiPolygon"
  THEN getNumGeometries(g) = 1
  ELSE g.type = "Polygon"

\* the escalation as a doubling of the threshold
IncreaseThreshold_Doubles(t) == t + t

\* lines 203 and 224: current_threshold += CONCAVE_HULL_LENGTH_INCREMENT
IncreaseThreshold(t) == t + CONCAVE_HULL_LENGTH_INCREMENT_METERS

\* line 239: the attempt count of the diagnostic line
AttemptsReported(a) == a + 1

\* lines 188-225: one iteration of the for loop, kernel call included
KernelCall ==
  /\ pc = "loop"
  /\ attempts < MAX_ATTEMPTS
  /\ \E r \in KernelResults \cup {KernelFailure} :
       /\ calls' = calls + 1
       /\ last_call' = [threshold |-> current_threshold, tight |-> TRUE, holes |-> FALSE,
                        failed |-> (r = KernelFailure)]
       /\ last_returned' =
            IF r = KernelFailure
            THEN last_returned
            ELSE [threshold |-> current_threshold, result |-> r]
       /\ kernel_features' = kernel_features \cup {idx}
       /\ IF r = KernelFailure
          THEN \* catch: the assignment to hull did not happen
               /\ hull' = hull
               /\ current_threshold' = IncreaseThreshold(current_threshold)
               /\ attempts' = attempts + 1
               /\ UNCHANGED << pc, loop_exit >>
          ELSE /\ hull' = r
               /\ IF IsSinglePolygon(r)
                  THEN /\ pc' = "after_loop"
                       /\ loop_exit' = "break"
                       /\ UNCHANGED << current_threshold, attempts >>
                  ELSE /\ current_threshold' = IncreaseThreshold(current_threshold)
                       /\ attempts' = attempts + 1
                       /\ UNCHANGED << pc, loop_exit >>
  /\ UNCHANGED << configVars, firstPassVars, secondPassVars, outputVars, runVars >>

\* line 188: the loop condition attempts < MAX_ATTEMPTS is false
LoopExhausted ==
  /\ pc = "loop"
  /\ ~(attempts < MAX_ATTEMPTS)
  /\ pc' = "after_loop"
  /\ loop_exit' = "exhausted"
  /\ UNCHANGED << configVars, firstPassVars, hull, current_threshold, attempts, calls,
                  last_call, last_returned, kernel_features, secondPassVars, outputVars, runVars >>

SearchOutcome ==
  IF loop_exit = "break" THEN "Accepted"
  ELSE IF hull = NullGeometry THEN "Failed"
  ELSE "Exhausted"

\* PushHullFeatures without the push_back to output_features_with_hulls
PushHullFeatures_HullOnly(h) ==
  /\ output_features' = Append(output_features, PlainFeature(features[idx], h))
  /\ output_features_with_hulls' = output_features_with_hulls
  /\ processed' = processed + 1
  /\ outcome' = Append(outcome, SearchOutcome)
  /\ idx' = idx + 1
  /\ pc' = "first_pass"
  /\ UNCHANGED << skipped, runVars >>

\* PushHullFeatures with the input geometry put in the hull-only collection
PushHullFeatures_OriginalGeometry(h) ==
  /\ output_features' =
       Append(output_features, PlainFeature(features[idx], features[idx].geom))
  /\ output_features_with_hulls' =
       Append(output_features_with_hulls, FeatureWithHull(features[idx], h))
  /\ processed' = processed + 1
  /\ outcome' = Append(outcome, SearchOutcome)
  /\ idx' = idx + 1
  /\ pc' = "first_pass"
  /\ UNCHANGED << skipped, runVars >>

\* lines 243-264 with the geometry h standing behind the hull pointer
PushHullFeatures(h) ==
  /\ output_features' = Append(output_features, PlainFeature(features[idx], h))
  /\ output_features_with_hulls' =
       Append(output_features_with_hulls, FeatureWithHull(features[idx], h))
  /\ processed' = processed + 1
  /\ outcome' = Append(outcome, SearchOutcome)
  /\ idx' = idx + 1
  /\ pc' = "first_pass"
  /\ UNCHANGED << skipped, runVars >>

\* line 265: hull, current_threshold and attempts go out of scope
LeaveSearchScope ==
  /\ hull' = NullGeometry
  /\ current_threshold' = 0
  /\ attempts' = 0
  /\ calls' = 0
  /\ last_call' = NoCall
  /\ last_returned' = NoResult
  /\ loop_exit' = "none"
  /\ UNCHANGED kernel_features

\* lines 243-264.  hull->clone() on a null hull is undefined: the process
\* crashes, or goes on with whatever the clone returned.
BuildHullFeatures ==
  /\ pc = "after_loop"
  /\ IF hull # NullGeometry
     THEN PushHullFeatures(hull) /\ LeaveSearchScope
     ELSE \/ Crash /\ UNCHANGED << firstPassVars, searchVars >>
          \/ \E g \in GarbageGeometries : PushHullFeatures(g) /\ LeaveSearchScope
  /\ UNCHANGED << configVars, secondPassVars, outputVars >>

\* lines 283-292: the for loop over features is over
EndFirstPass ==
  /\ pc = "first_pass"
  /\ idx > Len(features)
  /\ pc' = "second_pass"
  /\ i2' = 1
  /\ multi_polygon_names' = <<>>
  /\ multi_polygon_features' = <<>>
  /\ tiny_polygons_removed' = 0
  /\ UNCHANGED << configVars, firstPassVars, searchVars, pruned, outputVars, runVars >>

\* ------------------------------------------------------------ second pass
\* lines 305-314
eapply_name(feature) ==
  IF feature.eapply.kind = "string" THEN feature.eapply.val ELSE "(no eapply value)"

\* lines 325-339: index (1 or 2) of the part kept, 0 when larger_poly stays null
larger_poly(area1, area2) ==
  IF area1 < area2 /\ area1 < TINY_POLYGON_AREA_THRESHOLD_SQ_METERS THEN 2
  ELSE IF area2 < area1 /\ area2 < TINY_POLYGON_AREA_THRESHOLD_SQ_METERS THEN 1
  ELSE 0

\* the edge case without the test for exactly 2 polygons
HandledBy_AnyPartCount(geom) ==
  IF getNumGeometries(geom) >= 2
  THEN larger_poly(getArea(getGeometryN(geom, 0)), getArea(getGeometryN(geom, 1)))
  ELSE 0

\* lines 316-353: 0 when not handled, else the index of the part kept
HandledBy(geom) ==
  IF getNumGeometries(geom) = 2
  THEN larger_poly(getArea(getGeometryN(geom, 0)), getArea(getGeometryN(geom, 1)))
  ELSE 0

\* the multi-part test with >= 1 for > 1
IsMultiPart_AtLeastOnePart(geom) ==
  geom.type = "MultiPolygon" /\ getNumGeometries(geom) >= 1

\* lines 298-301
IsMultiPart(geom) == geom.type = "MultiPolygon" /\ getNumGeometries(geom) > 1

\* lines 294-367: one iteration of the loop over output_features
SecondPassStep ==
  /\ pc = "second_pass"
  /\ i2 <= Len(output_features)
  /\ LET feature == output_features[i2]
         geom == feature.geom
         kept == HandledBy(geom)
     IN IF IsMultiPart(geom)
        THEN IF kept # 0
             THEN /\ output_features' =
                       [output_features EXCEPT
                          ![i2] = PlainFeature(feature, getGeometryN(geom, kept - 1))]
                  /\ tiny_polygons_removed' = tiny_polygons_removed + 1
                  /\ pruned' = pruned \cup {i2}
                  /\ UNCHANGED << multi_polygon_names, multi_polygon_features >>
             ELSE /\ multi_polygon_names' = Append(multi_polygon_names, eapply_name(feature))
                  /\ multi_polygon_features' =
                       Append(multi_polygon_features, PlainFeature(feature, geom))
                  /\ UNCHANGED << output_features, tiny_polygons_removed, pruned >>
        ELSE UNCHANGED << output_features, tiny_polygons_removed, pruned,
                          multi_polygon_names, multi_polygon_features >>
  /\ i2' = i2 + 1
  /\ UNCHANGED << configVars, pc, idx, output_features_with_hulls, processed, skipped,
                  outcome, searchVars, outputVars, runVars >>

\* ---------------------------------------------------------------- output
\* lines 369-391: summary, and createDirectoryIfNotExists when there are
\* unresolved features.  The directory exists or is created (true), mkdir
\* fails (false, a warning), or fs::create_directory throws.
Report ==
  /\ pc = "second_pass"
  /\ i2 > Len(output_features)
  /\ issue_i' = 1
  /\ IF multi_polygon_names # <<>>
     THEN \E created \in {"true", "false", "throws"} :
            /\ issue_dir' = created
            /\ CASE created = "true" -> pc' = "issues" /\ UNCHANGED runVars
                 [] created = "false" -> pc' = "write_hulls" /\ UNCHANGED runVars
                 [] created = "throws" -> Abort("createDirectoryIfNotExists")
     ELSE pc' = "write_hulls" /\ UNCHANGED << issue_dir, runVars >>
  /\ UNCHANGED << configVars, firstPassVars, searchVars, secondPassVars, written >>

\* writeFile(filename, content): the file, its index for issue_<index>.geojson,
\* and the features of the collection written to it
File(name, index, content) == [name |-> name, index |-> index, content |-> content]

\* WriteIssueFile with the file named by the 0-based loop index
WriteIssueFile_ZeroBasedName ==
  /\ pc = "issues"
  /\ issue_i <= Len(multi_polygon_features)
  /\ \E opened \in BOOLEAN :
       IF opened
       THEN /\ written' =
                 Append(written, File("issue", issue_i - 1, <<multi_polygon_features[issue_i]>>))
            /\ issue_i' = issue_i + 1
            /\ UNCHANGED << pc, runVars >>
       ELSE Abort("issue") /\ UNCHANGED << written, issue_i >>
  /\ UNCHANGED << configVars, firstPassVars, searchVars, secondPassVars, issue_dir >>

\* lines 394-402: one iteration; writeFile throws when the file cannot be opened
WriteIssueFile ==
  /\ pc = "issues"
  /\ issue_i <= Len(multi_polygon_features)
  /\ \E opened \in BOOLEAN :
       IF opened
       THEN /\ written' =
                 Append(written, File("issue", issue_i, <<multi_polygon_features[issue_i]>>))
            /\ issue_i' = issue_i + 1
            /\ UNCHANGED << pc, runVars >>
       ELSE Abort("issue") /\ UNCHANGED << written, issue_i >>
  /\ UNCHANGED << configVars, firstPassVars, searchVars, secondPassVars, issue_dir >>

EndIssueFiles ==
  /\ pc = "issues"
  /\ issue_i > Len(multi_polygon_features)
  /\ pc' = "write_hulls"
  /\ UNCHANGED << configVars, firstPassVars, searchVars, secondPassVars, outputVars,
                  runVars >>

\* WriteHulls with the failure to open the file swallowed
WriteHulls_IgnoresFailure ==
  /\ pc = "write_hulls"
  /\ \E opened \in BOOLEAN :
       /\ written' = IF opened THEN Append(written, File("hulls", 0, output_features)) ELSE written
       /\ pc' = "write_with_hulls"
       /\ UNCHANGED runVars
  /\ UNCHANGED << configVars, firstPassVars, searchVars, secondPassVars, issue_i,
                  issue_dir >>

\* lines 413-417
WriteHulls ==
  /\ pc = "write_hulls"
  /\ \E opened \in BOOLEAN :
       IF opened
       THEN /\ written' = Append(written, File("hulls", 0, output_features))
            /\ pc' = "write_with_hulls"
            /\ UNCHANGED runVars
       ELSE Abort("hulls") /\ UNCHANGED written
  /\ UNCHANGED << configVars, firstPassVars, searchVars, secondPassVars, issue_i,
                  issue_dir >>

\* lines 419-425
WriteWithHulls ==
  /\ pc = "write_with_hulls"
  /\ \E opened \in BOOLEAN :
       IF opened
       THEN /\ written' = Append(written, File("with_hulls", 0, output_features_with_hulls))
            /\ pc' = "done"
            /\ exit_status' = 0
            /\ UNCHANGED failed_at
       ELSE Abort("with_hulls") /\ UNCHANGED written
  /\ UNCHANGED << configVars, firstPassVars, searchVars, secondPassVars, issue_i,
                  issue_dir >>

Next ==
  \/ ReadInput
  \/ SkipFeature
  \/ PassNonMultiPolygon
  \/ StartSearch
  \/ KernelCall
  \/ LoopExhausted
  \/ BuildHullFeatures
  \/ EndFirstPass
  \/ SecondPassStep
  \/ Report
  \/ WriteIssueFile
  \/ EndIssueFiles
  \/ WriteHulls
  \/ WriteWithHulls

Spec == Init /\ [][Next]_vars

\* main runs to its end: every enabled step is eventually taken
FairSpec == Spec /\ WF_vars(Next)

\* =================================================================== claims
\* Predicates of the claims, stated apart from the operators of the model.
ExactlyOnePart(g) == g.type \in {"Polygon", "MultiPolygon"} /\ Len(g.parts) = 1
TwoParts(g) == g.type = "MultiPolygon" /\ Len(g.parts) = 2
Tiny(a) == a < TINY_POLYGON_AREA_THRESHOLD_SQ_METERS
SecondPassOver == pc \in {"issues", "write_hulls", "write_with_hulls", "done"}
Terminated == pc \in {"done", "aborted", "crashed"}
Dispatched == 1..Len(outcome)
InWhitelist(f) == f.eapply.kind = "string" /\ f.eapply.val \in EAPPLY_WHITELIST
NameOf(f) == IF f.eapply.kind = "string" THEN f.eapply.val ELSE "(no eapply value)"
Names == { multi_polygon_names[k] : k \in 1..Len(multi_polygon_names) }
HullsWritten == \E k \in 1..Len(written) : written[k].name = "hulls"
WithHullsWritten == \E k \in 1..Len(written) : written[k].name = "with_hulls"

\* C1: when the threshold search is over, the attempts-used count it reports
\* lies in 1..MAX_ATTEMPTS and the threshold it holds is
\* T0 + increment * (attempts-used - 1), exhaustion of MAX_ATTEMPTS included.
C1_AttemptsWithinBudget ==
  pc = "after_loop" =>
    /\ AttemptsReported(attempts) \in 1..MAX_ATTEMPTS
    /\ current_threshold =
         CONCAVE_HULL_LENGTH_THRESHOLD_METERS
           + CONCAVE_HULL_LENGTH_INCREMENT_METERS * (AttemptsReported(attempts) - 1)

\* C2: once both passes have run, a feature that was skipped by the whitelist
\* or is not a MultiPolygon has its input geometry in both collections.
C2_PassThroughUnchanged ==
  SecondPassOver =>
    \A i \in Dispatched :
      outcome[i] \in {"Skipped", "NonMultiPolygon"} =>
        /\ output_features[i].geom = features[i].geom
        /\ output_features_with_hulls[i].geom = features[i].geom

\* C3: a second pass step on a two-part MultiPolygon keeps exactly the larger
\* part when one area is below the threshold and the other is not, and leaves
\* the feature as it is, recorded as unresolved, when both areas are below
\* the threshold or both are not.
C3_TinyFragmentPruning ==
  [][ ( /\ pc = "second_pass"
        /\ i2 <= Len(output_features)
        /\ TwoParts(output_features[i2].geom) ) =>
      LET g == output_features[i2].geom
          a1 == g.parts[1]
          a2 == g.parts[2]
      IN /\ (Tiny(a1) /\ ~Tiny(a2)) => output_features'[i2].geom = Polygon(a2)
         /\ (Tiny(a2) /\ ~Tiny(a1)) => output_features'[i2].geom = Polygon(a1)
         /\ (Tiny(a1) <=> Tiny(a2)) =>
              /\ output_features'[i2].geom = g
              /\ multi_polygon_names' =
                   Append(multi_polygon_names, NameOf(output_features[i2]))
              /\ Len(multi_polygon_features') = Len(multi_polygon_features) + 1
    ]_vars

\* C4: when every kernel invocation of a feature fails, the run does not
\* crash, MAX_ATTEMPTS invocations were made, the feature is dispatched with
\* a multi-part or its original geometry, and its name is in the unresolved
\* list once the second pass is over.
C4_KernelAlwaysFails ==
  /\ (loop_exit = "exhausted" /\ hull = NullGeometry) =>
       (pc # "crashed" /\ calls = MAX_ATTEMPTS)
  /\ \A i \in Dispatched :
       outcome[i] = "Failed" =>
         /\ \/ IsMultiPart(output_features[i].geom)
            \/ output_features[i].geom = features[i].geom
         /\ SecondPassOver => NameOf(features[i]) \in Names

\* C5: the two collections have the same length, one feature for each
\* feature dispatched so far, and the feature at each index of both has the
\* identifier of the input feature at that index, in the first pass, through
\* the replacements of the second pass and until the run ends.
C5_OutputCorrespondence ==
  /\ Len(output_features) = Len(output_features_with_hulls)
  /\ Len(output_features) = Len(outcome)
  /\ Len(output_features) <= Len(features)
  /\ pc \in {"first_pass", "loop", "after_loop"} => Len(output_features) = idx - 1
  /\ (pc = "second_pass" \/ SecondPassOver) => Len(output_features) = Len(features)
  /\ \A i \in 1..Len(output_features) :
       /\ output_features[i].id = features[i].id
       /\ output_features_with_hulls[i].id = features[i].id

C5_Witness ==
  /\ pc = "done"
  /\ Len(output_features) >= 2
  /\ pruned # {}
  /\ \E i \in Dispatched : outcome[i] = "Accepted"

\* C6: a feature that is Resolved, by acceptance in the search or by pruning
\* in the second pass, has exactly one polygonal part in the hull-only
\* collection.
C6_ResolvedIsSinglePart ==
  \A i \in Dispatched :
    (outcome[i] = "Accepted" \/ i \in pruned) => ExactlyOnePart(output_features[i].geom)

C6_Witness ==
  /\ pc = "done"
  /\ \E i \in Dispatched : outcome[i] = "Accepted" /\ output_features[i].geom.type = "MultiPolygon"
  /\ \E i \in pruned : outcome[i] = "Exhausted"

\* C7: the search leaves the loop at the first kernel result with one part:
\* while the loop runs no result so far had one part, a one-part result ends
\* the loop in the same step with attempts-used the number of invocations
\* made, the kernel is not invoked after it, and that result is the hull of
\* the feature appended to the hull-only collection.
C7_StopsAtFirstSinglePart ==
  /\ [](pc = "loop" => (~ExactlyOnePart(hull) /\ loop_exit = "none"))
  /\ []((pc = "after_loop" /\ loop_exit = "break") =>
         /\ ExactlyOnePart(hull)
         /\ ~last_call.failed
         /\ AttemptsReported(attempts) = calls)
  /\ [][ (pc = "loop" /\ ExactlyOnePart(hull')) =>
           (pc' = "after_loop" /\ loop_exit' = "break" /\ calls' = calls + 1) ]_vars
  /\ [][ (pc = "after_loop" /\ loop_exit = "break") =>
           /\ kernel_features' = kernel_features
           /\ output_features' = Append(output_features, PlainFeature(features[idx], hull))
           /\ outcome' = Append(outcome, "Accepted") ]_vars

C7_Witness ==
  /\ pc = "after_loop"
  /\ loop_exit = "break"
  /\ calls = MAX_ATTEMPTS
  /\ hull.type = "MultiPolygon"

\* C8 as stated: the run ends with both main outputs written and exit
\* status 0, or with neither of them written.
C8_AllOrNothing ==
  Terminated =>
    \/ HullsWritten /\ WithHullsWritten /\ exit_status = 0
    \/ ~HullsWritten /\ ~WithHullsWritten /\ exit_status # 0

\* C8 amended: the run ends with both main outputs written and exit status 0,
\* or with a non-zero status and the annotated output not written; the
\* hull-only output is written first, so it alone is left behind exactly when
\* the write of the annotated output fails.
C8_AnnotatedWrittenLast ==
  /\ WithHullsWritten => HullsWritten
  /\ Terminated =>
       \/ HullsWritten /\ WithHullsWritten /\ exit_status = 0
       \/ ~WithHullsWritten /\ exit_status # 0
  /\ (Terminated /\ HullsWritten /\ ~WithHullsWritten) => failed_at = "with_hulls"
  /\ failed_at = "with_hulls" => (HullsWritten /\ ~WithHullsWritten)

C8_Witness ==
  /\ pc = "aborted"
  /\ HullsWritten
  /\ ~WithHullsWritten
  /\ Len(written) > 1

\* C9: a run that returns from main, whose input is readable and whose two
\* main output files can be opened, has written both of them and returns 0,
\* whatever the number of unresolved features and whatever happens to the
\* issue directory and the issue files.
C9_OutputsAlwaysProduced ==
  (pc \in {"done", "aborted"} /\ failed_at \notin {"readFile", "hulls", "with_hulls"}) =>
    (pc = "done" /\ HullsWritten /\ WithHullsWritten /\ exit_status = 0)

\* C10: with a non-empty whitelist every feature whose eapply property is
\* not a string of the whitelist is skipped: it is in both collections with
\* its geometry, never handed to the kernel, and counted once in skipped; no
\* other feature is skipped, and with an empty whitelist none is.
C10_WhitelistDispatch ==
  /\ \A i \in Dispatched :
       (outcome[i] = "Skipped") <=> (EAPPLY_WHITELIST # {} /\ ~InWhitelist(features[i]))
  /\ \A i \in Dispatched :
       outcome[i] = "Skipped" =>
         /\ i \notin kernel_features
         /\ output_features[i].id = features[i].id
         /\ output_features_with_hulls[i] =
              [id |-> features[i].id, eapply |-> features[i].eapply,
               geom |-> features[i].geom, concave_hull_polygon |-> <<>>]
         /\ (pc \in {"first_pass", "loop", "after_loop"}) =>
              output_features[i] = output_features_with_hulls[i]
  /\ \A i \in kernel_features :
       /\ EAPPLY_WHITELIST = {} \/ InWhitelist(features[i])
       /\ features[i].geom.type = "MultiPolygon"
  /\ skipped = Cardinality({ i \in Dispatched : outcome[i] = "Skipped" })
  /\ EAPPLY_WHITELIST = {} => skipped = 0

C10_Witness ==
  /\ pc = "done"
  /\ EAPPLY_WHITELIST # {}
  /\ kernel_features # {}
  /\ \E i \in Dispatched : outcome[i] = "Skipped" /\ features[i].eapply.kind = "missing"

\* ------------------------------------------------------------------------
Recorded == { multi_polygon_features[k].id : k \in 1..Len(multi_polygon_features) }
HullProcessed(i) == outcome[i] \in {"Accepted", "Exhausted", "Failed"}

\* C11: once the second pass is over every feature has exactly one outcome:
\* a Skipped or NonMultiPolygon feature was neither pruned nor recorded as
\* unresolved, and a hull-processed feature either has exactly one polygonal
\* part in the hull-only collection or is recorded as unresolved, not both.
C11_ExactlyOneOutcome ==
  SecondPassOver =>
    \A i \in Dispatched :
      /\ outcome[i] \in {"Skipped", "NonMultiPolygon"} =>
           (i \notin pruned /\ features[i].id \notin Recorded)
      /\ HullProcessed(i) =>
           (ExactlyOnePart(output_features[i].geom) <=> features[i].id \notin Recorded)

\* C12: the n-th kernel invocation of a feature is made with threshold
\* T0 + (n - 1) * increment, tight and without holes; an invocation that
\* fails or returns something else than one part adds exactly one increment
\* and one attempt and stays in the search; the threshold never decreases
\* during a search and no step of the loop ends the run.
C12_MonotoneEscalation ==
  /\ [](calls >= 1 =>
         /\ last_call.threshold =
              CONCAVE_HULL_LENGTH_THRESHOLD_METERS
                + (calls - 1) * CONCAVE_HULL_LENGTH_INCREMENT_METERS
         /\ last_call.tight
         /\ ~last_call.holes)
  /\ [][ (calls' = calls + 1 /\ (last_call'.failed \/ ~ExactlyOnePart(hull'))) =>
           /\ current_threshold' = current_threshold + CONCAVE_HULL_LENGTH_INCREMENT_METERS
           /\ attempts' = attempts + 1
           /\ pc' = "loop" ]_vars
  /\ [][ pc = "loop" =>
           /\ current_threshold' >= current_threshold
           /\ pc' \in {"loop", "after_loop"}
           /\ exit_status' = exit_status ]_vars

C12_Witness ==
  /\ pc = "after_loop"
  /\ calls = MAX_ATTEMPTS
  /\ last_call.failed
  /\ hull # NullGeometry
  /\ last_returned.threshold > CONCAVE_HULL_LENGTH_THRESHOLD_METERS

\* ------------------------------------------------------------------------
LastAttemptThreshold ==
  CONCAVE_HULL_LENGTH_THRESHOLD_METERS
    + (MAX_ATTEMPTS - 1) * CONCAVE_HULL_LENGTH_INCREMENT_METERS
ExhaustedWithResult ==
  pc = "after_loop" /\ loop_exit = "exhausted" /\ last_returned.result # NullGeometry
BestEffortPushed ==
  /\ output_features' =
       Append(output_features,
              [id |-> features[idx].id, eapply |-> features[idx].eapply,
               geom |-> last_returned.result, concave_hull_polygon |-> <<>>])
  /\ output_features_with_hulls' =
       Append(output_features_with_hulls,
              [id |-> features[idx].id, eapply |-> features[idx].eapply,
               geom |-> features[idx].geom,
               concave_hull_polygon |->
                 <<"geojson", last_returned.result.type, last_returned.result.parts>>])
  /\ pc' = "first_pass"
  /\ exit_status' = exit_status

\* C13 as stated: when the search is exhausted and some invocation returned,
\* the geometry put in the hull-only collection and in the annotation is the
\* result of the final attempt, made at T0 + (MAX_ATTEMPTS - 1) * increment,
\* and the run goes on.
C13_FinalAttemptResult ==
  [][ ExhaustedWithResult =>
        (last_returned.threshold = LastAttemptThreshold /\ BestEffortPushed) ]_vars

\* C13 amended: when the search is exhausted and some invocation returned,
\* the geometry put in the hull-only collection and in the annotation is the
\* result of the last invocation that returned; that is the final attempt
\* exactly when the final attempt did not fail; the run goes on.
C13_LastReturnedResult ==
  [][ ExhaustedWithResult =>
        /\ BestEffortPushed
        /\ last_returned.threshold <= LastAttemptThreshold
        /\ (last_returned.threshold = LastAttemptThreshold) <=> ~last_call.failed
      ]_vars

C13_Witness ==
  /\ pc = "second_pass"
  /\ i2 > 1
  /\ \E i \in Dispatched :
       /\ outcome[i] = "Exhausted"
       /\ output_features[i].geom = MultiPolygon(<<10, 2000, 2000>>)
       /\ output_features_with_hulls[i].concave_hull_polygon[3] = <<10, 2000, 2000>>

\* ------------------------------------------------------------------------
\* The geometry a slot of the hull-only collection held when the second pass
\* started: the input geometry of a pass-through feature, the hull kept in
\* the annotation of a hull-processed one.
GeometryBeforeSecondPass(i) ==
  IF HullProcessed(i)
  THEN [type |-> output_features_with_hulls[i].concave_hull_polygon[2],
        parts |-> output_features_with_hulls[i].concave_hull_polygon[3]]
  ELSE features[i].geom
MoreThanOnePart(g) == g.type = "MultiPolygon" /\ Len(g.parts) > 1

\* C14: once the second pass is over, a feature of the hull-only collection
\* is a MultiPolygon of more than one part exactly when it is in the
\* unresolved list; the list holds each such feature once, in collection
\* order, with its name; and tiny_polygons_removed plus the length of the
\* list is the number of features that had more than one part when the
\* second pass started.
C14_ExactBookkeeping ==
  SecondPassOver =>
    /\ \A i \in 1..Len(output_features) :
         MoreThanOnePart(output_features[i].geom) <=> output_features[i].id \in Recorded
    /\ Len(multi_polygon_names) = Len(multi_polygon_features)
    /\ \A k \in 1..Len(multi_polygon_features) :
         /\ multi_polygon_features[k] = output_features[multi_polygon_features[k].id]
         /\ multi_polygon_names[k] = NameOf(multi_polygon_features[k])
         /\ \A l \in 1..Len(multi_polygon_features) :
              k < l => multi_polygon_features[k].id < multi_polygon_features[l].id
    /\ tiny_polygons_removed = Cardinality(pruned)
    /\ tiny_polygons_removed + Len(multi_polygon_features) =
         Cardinality({ i \in 1..Len(output_features) :
                        MoreThanOnePart(GeometryBeforeSecondPass(i)) })

C14_Witness ==
  /\ pc = "done"
  /\ tiny_polygons_removed >= 1
  /\ Len(multi_polygon_features) >= 1

\* ------------------------------------------------------------------------
MoreThanTwoParts(g) == g.type = "MultiPolygon" /\ Len(g.parts) > 2

\* C15: a second pass step on a MultiPolygon of more than 2 parts leaves the
\* slot and the counter as they are and appends the feature to the
\* unresolved list, whatever the areas; once the second pass is over such a
\* feature still has all its parts, was not pruned and is recorded.
C15_OnlyTwoPartsPruned ==
  /\ [][ ( /\ pc = "second_pass"
            /\ i2 <= Len(output_features)
            /\ MoreThanTwoParts(output_features[i2].geom) ) =>
          /\ output_features' = output_features
          /\ tiny_polygons_removed' = tiny_polygons_removed
          /\ pruned' = pruned
          /\ multi_polygon_names' =
               Append(multi_polygon_names, NameOf(output_features[i2]))
          /\ multi_polygon_features' =
               Append(multi_polygon_features, output_features[i2]) ]_vars
  /\ [](SecondPassOver =>
         \A i \in 1..Len(output_features) :
           MoreThanTwoParts(GeometryBeforeSecondPass(i)) =>
             /\ output_features[i].geom = GeometryBeforeSecondPass(i)
             /\ i \notin pruned
             /\ output_features[i].id \in Recorded)

C15_Witness ==
  /\ pc = "done"
  /\ \E i \in 1..Len(output_features) :
       /\ output_features[i].geom = MultiPolygon(<<10, 2000, 2000>>)
       /\ output_features[i].id \in Recorded

\* C16: in the outputs written, the hull kept in concave_hull_polygon of a
\* hull-processed feature of the annotated collection is the geometry of the
\* feature at the same index of the hull-only collection.
C16_AnnotationMatchesHull ==
  pc = "done" =>
    \A i \in Dispatched :
      HullProcessed(i) =>
        output_features_with_hulls[i].concave_hull_polygon =
          <<"geojson", output_features[i].geom.type, output_features[i].geom.parts>>

\* C17: every search starts afresh: before the first kernel invocation of a
\* feature the threshold is T0, attempts is 0 and hull is null, the first
\* invocation is made at T0, the hull appended for the feature was returned
\* by an invocation made for that feature, and entering a search leaves the
\* two collections and the counters as the earlier features left them.
C17_SearchStatePerFeature ==
  /\ []((pc = "loop" /\ calls = 0) =>
         /\ current_threshold = CONCAVE_HULL_LENGTH_THRESHOLD_METERS
         /\ attempts = 0
         /\ hull = NullGeometry)
  /\ [](calls = 1 => last_call.threshold = CONCAVE_HULL_LENGTH_THRESHOLD_METERS)
  /\ []((pc \in {"loop", "after_loop"} /\ hull # NullGeometry) =>
         /\ idx \in kernel_features
         /\ hull = last_returned.result
         /\ last_returned.threshold >= CONCAVE_HULL_LENGTH_THRESHOLD_METERS
         /\ last_returned.threshold <= last_call.threshold)
  /\ [][ (pc = "first_pass" /\ pc' = "loop") =>
           /\ output_features' = output_features
           /\ output_features_with_hulls' = output_features_with_hulls
           /\ processed' = processed
           /\ skipped' = skipped ]_vars

C17_Witness ==
  /\ pc = "loop"
  /\ idx = 2
  /\ calls = 1
  /\ outcome[1] = "Exhausted"
  /\ hull # output_features[1].geom

\* ------------------------------------------------------------------------
IsIssueFile(f) == f.name = "issue"
IssueFiles == SelectSeq(written, IsIssueFile)
IssueFilesFirst ==
  \A k, l \in 1..Len(written) : (k < l /\ IsIssueFile(written[l])) => IsIssueFile(written[k])
IssueFilesInOrder ==
  \A k \in 1..Len(IssueFiles) :
    /\ k <= Len(multi_polygon_features)
    /\ IssueFiles[k] =
         [name |-> "issue", index |-> k, content |-> <<multi_polygon_features[k]>>]

====
